---- MODULE Spec2Model ----
(***************************************************************************)
(* Model of the CopyCraft backend (degeee06/Backend-Copy): the per-client  *)
(* fixed-window rate limiter in front of the /api routes and the Hotmart   *)
(* webhook dispatcher with its subscription lifecycle handlers.            *)
(*                                                                         *)
(* The repository holds two revisions of the server:                       *)
(*   "server.js"  src/server.js          (no rate limiter, console logs)   *)
(*   "part_000"   src/unnamed/part_000   (rateLimit, logger, error         *)
(*                                        middleware, 404 route)           *)
(* The variable revision fixes which of the two programs is running.       *)
(***************************************************************************)
EXTENDS Integers, FiniteSets, Sequences, Bags, TLC

VARIABLES
    revision,      \* which server file is running
    now,           \* Date.now()
    rateLimitMap,  \* the module-level Map ip -> {count, startTime}
    seen,          \* history: requests of a key that reached rateLimit in its current window
    winStart,      \* history: time of the request that opened the key's current window
    last,          \* the most recent request through the route table and what happened to it
    rows,          \* the rows of the store's user_subscriptions table
    inflight,      \* the bag of store calls that suspended webhook requests await
    delivered,     \* number of webhook requests received so far
    upserts,       \* history: per email, the number of upserts the store has applied
    wlast,         \* the most recent step of a webhook request
    sub,           \* the most recent GET /api/subscription/:email request and its answer
    req,           \* req.body of the most recent POST /api/generate request
    res,           \* the most recent step of a POST /api/generate request
    pending,       \* the bag of suspended POST /api/generate requests
    generated_content, \* the rows of the store's generated_content table
    fetches,       \* history: number of calls made to the generation provider
    allowedAt,     \* history: per key and instant, the requests rateLimit allowed lately
    prevStart,     \* history: per key, the startTime of the window before the current one
    content,       \* the generated text handed to postProcessContent, as its lines
    template,      \* the template postProcessContent is called with
    processed      \* the text postProcessContent returned, as its lines

vars == <<revision, now, rateLimitMap, seen, winStart, last,
          rows, inflight, delivered, upserts, wlast, sub,
          req, res, pending, generated_content, fetches, allowedAt, prevStart,
          content, template, processed>>

rateVars == <<rateLimitMap, seen, winStart, last>>

webVars == <<rows, inflight, delivered, upserts, wlast, sub>>

genVars == <<req, res, pending, generated_content, fetches>>

burstVars == <<allowedAt, prevStart>>

postVars == <<content, template, processed>>

----------------------------------------------------------------------------
(* Program constants *)

windowMs == 15 * 60 * 1000

maxRequests == 50

(* Bounds of the model *)

\* number of whole windows the clock runs past
MaxWindows == 1

\* requests of one key beyond maxRequests in one window
MaxOver == 2

\* requests per window of the keys other than the busiest one
MaxLight == 2

(* the instants the clock is read at: 0, one window later, and the first   *)
(* millisecond past a whole number of windows                              *)
TimePoints == {0, windowMs} \cup {w * windowMs + 1 : w \in 1..MaxWindows}

Keys == {"ip1", "ip2"}

Revisions == {"server.js", "part_000"}

Routes == {"POST /api/generate", "GET /api/history", "GET /api/subscription/:email",
           "GET /api/stats", "POST /webhook/hotmart", "GET /health", "unmatched"}

----------------------------------------------------------------------------
(* The rate limiter *)

NoEntry == [count |-> 0, startTime |-> -1]

has(map, ip) == map[ip] # NoEntry

(* rateLimit with the limit test written count > maxRequests *)
rateLimit_offByOne(map, ip, t) ==
    IF ~has(map, ip)
    THEN [map |-> [map EXCEPT ![ip] = [count |-> 1, startTime |-> t]], next |-> TRUE]
    ELSE IF t - map[ip].startTime > windowMs
    THEN [map |-> [map EXCEPT ![ip] = [count |-> 1, startTime |-> t]], next |-> TRUE]
    ELSE IF map[ip].count > maxRequests
    THEN [map |-> map, next |-> FALSE]
    ELSE [map |-> [map EXCEPT ![ip].count = @ + 1], next |-> TRUE]

(* rateLimit with the window test written now - startTime >= windowMs *)
rateLimit_resetAtBoundary(map, ip, t) ==
    IF ~has(map, ip)
    THEN [map |-> [map EXCEPT ![ip] = [count |-> 1, startTime |-> t]], next |-> TRUE]
    ELSE IF t - map[ip].startTime >= windowMs
    THEN [map |-> [map EXCEPT ![ip] = [count |-> 1, startTime |-> t]], next |-> TRUE]
    ELSE IF map[ip].count >= maxRequests
    THEN [map |-> map, next |-> FALSE]
    ELSE [map |-> [map EXCEPT ![ip].count = @ + 1], next |-> TRUE]

(* rateLimit without its userData.count++ *)
rateLimit_noIncrement(map, ip, t) ==
    IF ~has(map, ip)
    THEN [map |-> [map EXCEPT ![ip] = [count |-> 1, startTime |-> t]], next |-> TRUE]
    ELSE IF t - map[ip].startTime > windowMs
    THEN [map |-> [map EXCEPT ![ip] = [count |-> 1, startTime |-> t]], next |-> TRUE]
    ELSE IF map[ip].count >= maxRequests
    THEN [map |-> map, next |-> FALSE]
    ELSE [map |-> map, next |-> TRUE]

(* rateLimit restarting the window of a key each time it rejects it *)
rateLimit_rejectRestartsWindow(map, ip, t) ==
    IF ~has(map, ip)
    THEN [map |-> [map EXCEPT ![ip] = [count |-> 1, startTime |-> t]], next |-> TRUE]
    ELSE IF t - map[ip].startTime > windowMs
    THEN [map |-> [map EXCEPT ![ip] = [count |-> 1, startTime |-> t]], next |-> TRUE]
    ELSE IF map[ip].count >= maxRequests
    THEN [map |-> [map EXCEPT ![ip].startTime = t], next |-> FALSE]
    ELSE [map |-> [map EXCEPT ![ip].count = @ + 1], next |-> TRUE]

(* rateLimit counting the requests it rejects *)
rateLimit_countsRejected(map, ip, t) ==
    IF ~has(map, ip)
    THEN [map |-> [map EXCEPT ![ip] = [count |-> 1, startTime |-> t]], next |-> TRUE]
    ELSE IF t - map[ip].startTime > windowMs
    THEN [map |-> [map EXCEPT ![ip] = [count |-> 1, startTime |-> t]], next |-> TRUE]
    ELSE IF map[ip].count >= maxRequests
    THEN [map |-> [map EXCEPT ![ip].count = @ + 1], next |-> FALSE]
    ELSE [map |-> [map EXCEPT ![ip].count = @ + 1], next |-> TRUE]

(* rateLimit opening a new window without counting the request that opens it *)
rateLimit_resetUncounted(map, ip, t) ==
    IF ~has(map, ip)
    THEN [map |-> [map EXCEPT ![ip] = [count |-> 1, startTime |-> t]], next |-> TRUE]
    ELSE IF t - map[ip].startTime > windowMs
    THEN [map |-> [map EXCEPT ![ip] = [count |-> 0, startTime |-> t]], next |-> TRUE]
    ELSE IF map[ip].count >= maxRequests
    THEN [map |-> map, next |-> FALSE]
    ELSE [map |-> [map EXCEPT ![ip].count = @ + 1], next |-> TRUE]

rateLimit(map, ip, t) ==
    IF ~has(map, ip)
    THEN [map |-> [map EXCEPT ![ip] = [count |-> 1, startTime |-> t]], next |-> TRUE]
    ELSE IF t - map[ip].startTime > windowMs
    THEN [map |-> [map EXCEPT ![ip] = [count |-> 1, startTime |-> t]], next |-> TRUE]
    ELSE IF map[ip].count >= maxRequests
    THEN [map |-> map, next |-> FALSE]
    ELSE [map |-> [map EXCEPT ![ip].count = @ + 1], next |-> TRUE]

(* The middleware registered in front of each route's handler *)

(* the route table with GET /api/history registered without rateLimit *)
Chain_historyOpen(rev, route) ==
    IF rev = "part_000"
    THEN CASE route = "POST /api/generate" -> <<"rateLimit", "validateGenerateRequest">>
           [] route = "GET /api/subscription/:email" -> <<"rateLimit">>
           [] route = "GET /api/stats" -> <<"rateLimit">>
           [] OTHER -> <<>>
    ELSE <<>>

(* the route table with GET /api/stats registered without rateLimit *)
Chain_statsOpen(rev, route) ==
    IF rev = "part_000"
    THEN CASE route = "POST /api/generate" -> <<"rateLimit", "validateGenerateRequest">>
           [] route = "GET /api/history" -> <<"rateLimit">>
           [] route = "GET /api/subscription/:email" -> <<"rateLimit">>
           [] OTHER -> <<>>
    ELSE <<>>

(* the route table with validateGenerateRequest registered ahead of rateLimit *)
Chain_validateFirst(rev, route) ==
    IF rev = "part_000"
    THEN CASE route = "POST /api/generate" -> <<"validateGenerateRequest", "rateLimit">>
           [] route = "GET /api/history" -> <<"rateLimit">>
           [] route = "GET /api/subscription/:email" -> <<"rateLimit">>
           [] route = "GET /api/stats" -> <<"rateLimit">>
           [] OTHER -> <<>>
    ELSE <<>>

Chain(rev, route) ==
    IF rev = "part_000"
    THEN CASE route = "POST /api/generate" -> <<"rateLimit", "validateGenerateRequest">>
           [] route = "GET /api/history" -> <<"rateLimit">>
           [] route = "GET /api/subscription/:email" -> <<"rateLimit">>
           [] route = "GET /api/stats" -> <<"rateLimit">>
           [] OTHER -> <<>>
    ELSE <<>>

Gated(rev, route) == \E i \in 1..Len(Chain(rev, route)) : Chain(rev, route)[i] = "rateLimit"

NoRequest == [key |-> "none", route |-> "none", gate |-> "none", status |-> "none",
              handlerRan |-> FALSE]

Validated(rev, route) ==
    \E i \in 1..Len(Chain(rev, route)) : Chain(rev, route)[i] = "validateGenerateRequest"

----------------------------------------------------------------------------
(* POST /api/generate: the request body and validateGenerateRequest *)

maxPromptLength == 1000

\* number of runs of equal characters a prompt is made of
MaxRuns == 2

(* A JavaScript string is kept run-length encoded: a sequence of runs      *)
(* [ch, n] standing for n copies of the character ch                       *)
Chars == {" ", "a"}

RunLengths == {1, maxPromptLength - 1, maxPromptLength, maxPromptLength + 1}

Runs == {[ch |-> c, n |-> k] : c \in Chars, k \in RunLengths}

Undefined == [kind |-> "undefined", num |-> 0, text |-> "", runs |-> <<>>]

Null == [kind |-> "null", num |-> 0, text |-> "", runs |-> <<>>]

Number(k) == [kind |-> "number", num |-> k, text |-> "", runs |-> <<>>]

Array == [kind |-> "array", num |-> 0, text |-> "", runs |-> <<>>]

(* a string given by its runs (a prompt) or by its text (a template) *)
String(runs) == [kind |-> "string", num |-> 0, text |-> "", runs |-> runs]

Text(t) == [kind |-> "string", num |-> 0, text |-> t, runs |-> <<>>]

typeof(v) == IF v.kind \in {"null", "array"} THEN "object" ELSE v.kind

RECURSIVE RunsLength(_)
RunsLength(runs) == IF runs = <<>> THEN 0 ELSE Head(runs).n + RunsLength(Tail(runs))

(* String.prototype.length *)
length(v) == RunsLength(v.runs)

(* !v is false exactly for the truthy values *)
Truthy(v) ==
    CASE v.kind = "string" -> length(v) > 0 \/ v.text # ""
      [] v.kind = "number" -> v.num # 0
      [] v.kind = "array" -> TRUE
      [] OTHER -> FALSE

IsWhiteSpace(c) == c = " "

RECURSIVE trimStart(_)
trimStart(runs) ==
    IF runs # <<>> /\ IsWhiteSpace(Head(runs).ch) THEN trimStart(Tail(runs)) ELSE runs

RECURSIVE trimEnd(_)
trimEnd(runs) ==
    IF runs # <<>> /\ IsWhiteSpace(runs[Len(runs)].ch)
    THEN trimEnd(SubSeq(runs, 1, Len(runs) - 1))
    ELSE runs

(* String.prototype.trim *)
trim(v) == String(trimEnd(trimStart(v.runs)))

validTemplates == <<"instagram", "facebook", "ecommerce", "email", "google", "blog">>

(* Array.prototype.includes: strict equality with one of the elements *)
includes(array, v) == \E i \in 1..Len(array) : v.kind = "string" /\ v.text = array[i]

MsgRequired == "Prompt e obrigatorio e deve ser uma string"

MsgTooLong == "Prompt muito longo (max: 1000 caracteres)"

MsgEmpty == "Prompt nao pode estar vazio"

MsgTemplate == "Template invalido"

Reject(message) == [next |-> FALSE, status |-> 400, error |-> message]

CallNext == [next |-> TRUE, status |-> 0, error |-> "none"]

(* validateGenerateRequest with the length test written prompt.length >= 1000 *)
validateGenerateRequest_shortLimit(body) ==
    IF ~Truthy(body.prompt) \/ typeof(body.prompt) # "string" THEN Reject(MsgRequired)
    ELSE IF length(body.prompt) >= maxPromptLength THEN Reject(MsgTooLong)
    ELSE IF length(trim(body.prompt)) = 0 THEN Reject(MsgEmpty)
    ELSE IF ~includes(validTemplates, body.template) THEN Reject(MsgTemplate)
    ELSE CallNext

validateGenerateRequest(body) ==
    IF ~Truthy(body.prompt) \/ typeof(body.prompt) # "string" THEN Reject(MsgRequired)
    ELSE IF length(body.prompt) > maxPromptLength THEN Reject(MsgTooLong)
    ELSE IF length(trim(body.prompt)) = 0 THEN Reject(MsgEmpty)
    ELSE IF ~includes(validTemplates, body.template) THEN Reject(MsgTemplate)
    ELSE CallNext

(* sequences of at most n runs *)
RECURSIVE RunSeqs(_)
RunSeqs(n) ==
    IF n = 0 THEN {<<>>}
    ELSE RunSeqs(n - 1) \cup {Append(q, r) : q \in {x \in RunSeqs(n - 1) : Len(x) = n - 1},
                                              r \in Runs}

Prompts ==
    {Undefined, Null, Number(0), Number(42), Array} \cup {String(q) : q \in RunSeqs(MaxRuns)}

Templates ==
    {Text(validTemplates[i]) : i \in 1..Len(validTemplates)}
    \cup {Text("tiktok"), Text("Instagram"), Text(""), Undefined, Number(42)}

GenerateBodies == {[prompt |-> p, template |-> t] : p \in Prompts, t \in Templates}

NoBody == [prompt |-> Undefined, template |-> Undefined]

NoAnswer == [phase |-> "none", key |-> "none", next |-> FALSE, status |-> 0,
             error |-> "none", provider |-> "none", store |-> "none",
             calls |-> 0, inserts |-> 0]

----------------------------------------------------------------------------
(* POST /api/generate: the middleware chain and the handler *)

\* calls the generation provider receives in one run
MaxFetches == 2

\* POST /api/generate requests suspended at the same time
MaxPending == 2

\* requests a key sends in a window that earlier requests have not filled
MaxAdmitted == 2

MsgRateLimit == "Muitas requisicoes. Tente novamente em 15 minutos."

MsgGenerate == "Erro ao gerar conteudo"

(* the bodies sent to the route: a valid one, one with an empty prompt,    *)
(* one with an unknown template                                            *)
SentBodies ==
    {[prompt |-> String(<<[ch |-> "a", n |-> 1]>>), template |-> Text("instagram")],
     [prompt |-> String(<<>>), template |-> Text("instagram")],
     [prompt |-> String(<<[ch |-> "a", n |-> 1]>>), template |-> Text("tiktok")]}

(* express runs the middleware of a route in the order of registration; a  *)
(* middleware that answers ends the chain                                  *)
RECURSIVE Through(_, _, _, _, _)
Through(chain, map, ip, t, body) ==
    IF chain = <<>>
    THEN [map |-> map, status |-> 0, error |-> "none"]
    ELSE IF Head(chain) = "rateLimit"
    THEN LET r == rateLimit(map, ip, t)
         IN IF r.next
            THEN Through(Tail(chain), r.map, ip, t, body)
            ELSE [map |-> r.map, status |-> 429, error |-> MsgRateLimit]
    ELSE LET v == validateGenerateRequest(body)
         IN IF v.next
            THEN Through(Tail(chain), map, ip, t, body)
            ELSE [map |-> map, status |-> v.status, error |-> v.error]

(* What the provider's answer is to the handler:                           *)
(*   ok         a 2xx response whose choices[0].message.content is a string *)
(*   notOk      a response with response.ok false                          *)
(*   malformed  a 2xx response that is not JSON or has no choices[0].message *)
(*   noContent  a 2xx response whose choices[0].message has no content     *)
(*   reject     fetch itself rejects                                       *)
ProviderOutcomes == {"ok", "notOk", "malformed", "noContent", "reject"}

(* the handler after await fetch(...): it goes on to the insert or throws  *)
(* to its catch block; part_000 reads generatedContent.length, server.js   *)
(* does not touch the content                                              *)
AfterFetch(rev, outcome) ==
    CASE outcome = "ok" -> "insert"
      [] outcome = "noContent" -> IF rev = "part_000" THEN "throw" ELSE "insert"
      [] OTHER -> "throw"

(* the row of .insert([{template_type, prompt, content, created_at}]); the *)
(* text of the content and the time of the call are not kept               *)
GenerationRecord(call) ==
    [template_type |-> call.body.template, prompt |-> call.body.prompt]

----------------------------------------------------------------------------
(* The webhook: payloads *)

\* webhook requests received in one run
MaxEvents == 2

\* webhook requests suspended at the store at the same time
MaxInFlight == 2

Emails == {"a@x.com", "b@x.com"}

NoPurchase == [id |-> "none", name |-> "none", transaction |-> "none"]

Purchases == {[id |-> "p1", name |-> "Prod", transaction |-> "t1"],
              [id |-> "p2", name |-> "Prod 2", transaction |-> "t2"]}

StoreTags == {"PURCHASE_APPROVED", "PURCHASE_CANCELED", "PURCHASE_REFUNDED",
              "PURCHASE_CHARGEBACK"}

DispatchTags == StoreTags \cup {"PURCHASE_COMPLETE"}

(* "undefined" is an envelope without an event field *)
Tags == DispatchTags \cup {"SOMETHING_ELSE", "undefined"}

(* req.body.data: absent, {} , {buyer:{email}} , {buyer, product, purchase} *)
Datas ==
    {[shape |-> "undefined", email |-> "none", purchase |-> NoPurchase],
     [shape |-> "empty", email |-> "none", purchase |-> NoPurchase]}
    \cup {[shape |-> "buyerOnly", email |-> e, purchase |-> NoPurchase] : e \in Emails}
    \cup {[shape |-> "full", email |-> e, purchase |-> p] : e \in Emails, p \in Purchases}

(* A request body: JSON that express.json() cannot parse, or an envelope *)
NoData == [shape |-> "undefined", email |-> "none", purchase |-> NoPurchase]

Bodies ==
    {[parsed |-> FALSE, event |-> "undefined", data |-> NoData]}
    \cup {[parsed |-> TRUE, event |-> t, data |-> d] : t \in Tags, d \in Datas}

----------------------------------------------------------------------------
(* The store's user_subscriptions table *)

NullTs == -1

(* Date.now() + 30 * 24 * 60 * 60 * 1000 is beyond the integers of the    *)
(* checker: the instant is kept as a time in ms plus a number of whole days *)
thirtyDays == 30

PlusDays(t, d) == [ms |-> t, days |-> d]

NoOp == [call |-> "none", tag |-> "none", email |-> "none", purchase |-> NoPurchase,
         status |-> "none", column |-> "none", ts |-> NullTs]

Matching(table, email) == {r \in table : r.user_email = email}

(* upsert written as a plain insert: no conflict target *)
upsert_insert(table, op) ==
    table \cup {[user_email |-> op.email,
                 product_id |-> op.purchase.id,
                 product_name |-> op.purchase.name,
                 purchase_token |-> op.purchase.transaction,
                 status |-> op.status,
                 starts_at |-> op.ts,
                 ends_at |-> PlusDays(op.ts, thirtyDays),
                 created_at |-> op.ts,
                 canceled_at |-> NullTs,
                 refunded_at |-> NullTs,
                 chargeback_at |-> NullTs]}

(* upsert with ignoreDuplicates: a conflicting row is left as it is *)
upsert_ignoreDuplicates(table, op) ==
    IF Matching(table, op.email) # {}
    THEN table
    ELSE upsert_insert(table, op)

(* upsert keeping the period of the row it finds *)
upsert_keepPeriod(table, op) ==
    IF Matching(table, op.email) # {}
    THEN {IF r.user_email = op.email
          THEN [r EXCEPT !.product_id = op.purchase.id,
                         !.product_name = op.purchase.name,
                         !.purchase_token = op.purchase.transaction,
                         !.status = op.status]
          ELSE r : r \in table}
    ELSE upsert_insert(table, op)

(* .upsert({user_email, product_id, product_name, purchase_token, status,  *)
(*          starts_at, ends_at, created_at}, {onConflict: 'user_email'})   *)
upsert(table, op) ==
    IF Matching(table, op.email) # {}
    THEN {IF r.user_email = op.email
          THEN [r EXCEPT !.product_id = op.purchase.id,
                         !.product_name = op.purchase.name,
                         !.purchase_token = op.purchase.transaction,
                         !.status = op.status,
                         !.starts_at = op.ts,
                         !.ends_at = PlusDays(op.ts, thirtyDays),
                         !.created_at = op.ts]
          ELSE r : r \in table}
    ELSE table \cup {[user_email |-> op.email,
                      product_id |-> op.purchase.id,
                      product_name |-> op.purchase.name,
                      purchase_token |-> op.purchase.transaction,
                      status |-> op.status,
                      starts_at |-> op.ts,
                      ends_at |-> PlusDays(op.ts, thirtyDays),
                      created_at |-> op.ts,
                      canceled_at |-> NullTs,
                      refunded_at |-> NullTs,
                      chargeback_at |-> NullTs]}

(* update writing its instant to the three timestamp columns *)
update_allColumns(table, op) ==
    {IF r.user_email = op.email
     THEN [r EXCEPT !.status = op.status,
                    !.canceled_at = op.ts,
                    !.refunded_at = op.ts,
                    !.chargeback_at = op.ts]
     ELSE r : r \in table}

(* update applying only to a row that is still active *)
update_onlyActive(table, op) ==
    {IF r.user_email = op.email /\ r.status = "active"
     THEN [r EXCEPT !.status = op.status,
                    !.canceled_at = IF op.column = "canceled_at" THEN op.ts ELSE @,
                    !.refunded_at = IF op.column = "refunded_at" THEN op.ts ELSE @,
                    !.chargeback_at = IF op.column = "chargeback_at" THEN op.ts ELSE @]
     ELSE r : r \in table}

(* update without its .eq('user_email', ...) filter *)
update_noFilter(table, op) ==
    {[r EXCEPT !.status = op.status,
               !.canceled_at = IF op.column = "canceled_at" THEN op.ts ELSE @,
               !.refunded_at = IF op.column = "refunded_at" THEN op.ts ELSE @,
               !.chargeback_at = IF op.column = "chargeback_at" THEN op.ts ELSE @]
     : r \in table}

(* .update({status, <column>: now}).eq('user_email', email) *)
update(table, op) ==
    {IF r.user_email = op.email
     THEN [r EXCEPT !.status = op.status,
                    !.canceled_at = IF op.column = "canceled_at" THEN op.ts ELSE @,
                    !.refunded_at = IF op.column = "refunded_at" THEN op.ts ELSE @,
                    !.chargeback_at = IF op.column = "chargeback_at" THEN op.ts ELSE @]
     ELSE r : r \in table}

(* The table outlives the server process: at start it is empty or holds   *)
(* the row an earlier approval of b@x.com's purchase left in it           *)
SeedRow == [user_email |-> "b@x.com",
            product_id |-> "p1",
            product_name |-> "Prod",
            purchase_token |-> "t1",
            status |-> "active",
            starts_at |-> 0,
            ends_at |-> PlusDays(0, thirtyDays),
            created_at |-> 0,
            canceled_at |-> NullTs,
            refunded_at |-> NullTs,
            chargeback_at |-> NullTs]

InitialTables == {{}, {SeedRow}}

Apply(table, op) == IF op.call = "upsert" THEN upsert(table, op) ELSE update(table, op)

----------------------------------------------------------------------------
(* The event handlers, up to their await of the store.  A handler either   *)
(* throws to its caller ("propagated"), catches an exception in its own    *)
(* try block ("caught"), or reaches the store call op.                     *)

Threw == [exc |-> "propagated", log |-> "none", op |-> NoOp]

Caught == [exc |-> "caught", log |-> "error", op |-> NoOp]

handlePurchaseApproved(rev, data, t) ==
    IF data.shape = "undefined" THEN Threw
    ELSE IF data.shape # "full" THEN Caught
    ELSE [exc |-> "none", log |-> "none",
          op |-> [call |-> "upsert", tag |-> "PURCHASE_APPROVED", email |-> data.email,
                  purchase |-> data.purchase, status |-> "active", column |-> "none",
                  ts |-> t]]

handlePurchaseComplete(rev, data, t) ==
    IF rev = "part_000" /\ data.shape = "undefined" THEN Threw
    ELSE [exc |-> "none", log |-> "info", op |-> NoOp]

StatusUpdate(tag, status, column, data, t) ==
    IF data.shape = "undefined" THEN Threw
    ELSE IF data.shape = "empty" THEN Caught
    ELSE [exc |-> "none", log |-> "none",
          op |-> [call |-> "update", tag |-> tag, email |-> data.email,
                  purchase |-> NoPurchase, status |-> status, column |-> column,
                  ts |-> t]]

handlePurchaseCanceled(rev, data, t) ==
    StatusUpdate("PURCHASE_CANCELED", "canceled", "canceled_at", data, t)

handlePurchaseRefunded(rev, data, t) ==
    StatusUpdate("PURCHASE_REFUNDED", "refunded", "refunded_at", data, t)

(* handlePurchaseChargeback left with the status of the handler it was copied from *)
handlePurchaseChargeback_copied(rev, data, t) ==
    StatusUpdate("PURCHASE_CHARGEBACK", "refunded", "chargeback_at", data, t)

handlePurchaseChargeback(rev, data, t) ==
    StatusUpdate("PURCHASE_CHARGEBACK", "chargeback", "chargeback_at", data, t)

(* the switch of app.post('/webhook/hotmart') *)
Dispatch(rev, event, data, t) ==
    CASE event = "PURCHASE_APPROVED" -> handlePurchaseApproved(rev, data, t)
      [] event = "PURCHASE_COMPLETE" -> handlePurchaseComplete(rev, data, t)
      [] event = "PURCHASE_CANCELED" -> handlePurchaseCanceled(rev, data, t)
      [] event = "PURCHASE_REFUNDED" -> handlePurchaseRefunded(rev, data, t)
      [] event = "PURCHASE_CHARGEBACK" -> handlePurchaseChargeback(rev, data, t)
      [] OTHER -> [exc |-> "none", log |-> "warn", op |-> NoOp]

(* the catch block of the route answering with an error status *)
Respond_500(exc) ==
    IF exc = "propagated"
    THEN [status |-> 500, body |-> "error"]
    ELSE [status |-> 200, body |-> "success"]

(* the response of the route once the handler has returned or thrown *)
Respond(exc) ==
    IF exc = "propagated"
    THEN [status |-> 200, body |-> "error"]
    ELSE [status |-> 200, body |-> "success"]

(* express.json() passes a body it cannot parse to the error handling:     *)
(* the error middleware of part_000, express's default one in server.js   *)
ParseFailure(rev) ==
    IF rev = "part_000"
    THEN [status |-> 500, body |-> "Erro interno do servidor"]
    ELSE [status |-> 400, body |-> "none"]

(* a handler whose catch block rethrows the exception of the store call *)
AfterStore_rethrow(outcome) ==
    CASE outcome = "ok" -> [exc |-> "none", log |-> "info"]
      [] outcome = "error" -> [exc |-> "none", log |-> "error"]
      [] outcome = "throw" -> [exc |-> "propagated", log |-> "error"]

(* what a handler does with the store's answer: it logs, and returns *)
AfterStore(outcome) ==
    CASE outcome = "ok" -> [exc |-> "none", log |-> "info"]
      [] outcome = "error" -> [exc |-> "none", log |-> "error"]
      [] outcome = "throw" -> [exc |-> "caught", log |-> "error"]

StoreOutcomes == {"ok", "error", "throw"}

(* every store call a handler can issue *)
Ops ==
    {Dispatch(rev, t, d, ts).op : rev \in Revisions, t \in StoreTags, d \in Datas,
                                  ts \in TimePoints} \ {NoOp}

NoStep == [phase |-> "none", parsed |-> FALSE, event |-> "none",
           status |-> 0, body |-> "none", exc |-> "none", log |-> "none",
           store |-> "none", matched |-> 0]

----------------------------------------------------------------------------
(* GET /api/subscription/:email *)

NoRow == [user_email |-> "none",
          product_id |-> "none",
          product_name |-> "none",
          purchase_token |-> "none",
          status |-> "none",
          starts_at |-> NullTs,
          ends_at |-> PlusDays(NullTs, 0),
          created_at |-> NullTs,
          canceled_at |-> NullTs,
          refunded_at |-> NullTs,
          chargeback_at |-> NullTs]

(* the rows of table with the latest created_at among those of email *)
Latest(table, email) ==
    {r \in Matching(table, email) :
        \A q \in Matching(table, email) : q.created_at <= r.created_at}

(* .select('*').eq('user_email', email).order('created_at', {ascending:    *)
(* false}).limit(1).single(): the row, the error PGRST116 when there is no *)
(* row, another error when the store fails, or an exception                *)
select(table, email, outcome) ==
    CASE outcome = "throw" -> [threw |-> TRUE, data |-> NoRow, error |-> "none"]
      [] outcome = "error" -> [threw |-> FALSE, data |-> NoRow, error |-> "STORE"]
      [] OTHER ->
           IF Matching(table, email) = {}
           THEN [threw |-> FALSE, data |-> NoRow, error |-> "PGRST116"]
           ELSE [threw |-> FALSE, data |-> CHOOSE r \in Latest(table, email) : TRUE,
                 error |-> "none"]

(* the handler of the route once the store has answered *)
subscription(rev, answer) ==
    IF answer.threw
    THEN [status |-> 500, body |-> "Erro interno", data |-> NoRow]
    ELSE IF answer.error # "none"
    THEN IF rev = "part_000" /\ answer.error # "PGRST116"
         THEN [status |-> 500, body |-> "Erro interno", data |-> NoRow]
         ELSE [status |-> 404, body |-> "not_found", data |-> NoRow]
    ELSE [status |-> 200, body |-> "record", data |-> answer.data]

NoLookup == [email |-> "none", store |-> "none", status |-> 0, body |-> "none",
             data |-> NoRow]

(* the tables the webhook leaves behind: an initial table, or one with a   *)
(* store call of a handler applied to it                                   *)
Tables == InitialTables \cup {Apply(t, op) : t \in InitialTables, op \in Ops}

----------------------------------------------------------------------------
(* postProcessContent.  A text is kept as the sequence of its lines, and a *)
(* line as its label ("Titulo 1:" stands for 'Título 1:'), whether the     *)
(* label is written **bold**, and the number n of characters that follow   *)
(* the label and one space; an empty line has no label and n = 0.          *)

\* lines of one generated text
MaxLines == 4

titleBudget == 30

descriptionBudget == 90

LabelTitle1 == "Titulo 1:"

LabelTitle2 == "Titulo 2:"

LabelDescription == "Descricao:"

EmptyLine == [label |-> "", bold |-> FALSE, n |-> 0]

Line(label, n) == [label |-> label, bold |-> FALSE, n |-> n]

IsEmptyLine(l) == l.label = "" /\ l.n = 0

(* .replace(/\*\*(.*?)\*\*/g, '$1') *)
removeBold(text) == [i \in 1..Len(text) |-> [text[i] EXCEPT !.bold = FALSE]]

(* .replace(/\n{3,}/g, '\n\n'): of the empty lines that follow one another *)
(* between two lines of text one is left                                   *)
RECURSIVE collapseBreaks(_)
collapseBreaks(text) ==
    IF Len(text) < 2 THEN text
    ELSE IF IsEmptyLine(text[1]) /\ IsEmptyLine(text[2]) THEN collapseBreaks(Tail(text))
    ELSE <<text[1]>> \o collapseBreaks(Tail(text))

RECURSIVE dropEmptyStart(_)
dropEmptyStart(text) ==
    IF text # <<>> /\ IsEmptyLine(text[1]) THEN dropEmptyStart(Tail(text)) ELSE text

RECURSIVE dropEmptyEnd(_)
dropEmptyEnd(text) ==
    IF text # <<>> /\ IsEmptyLine(text[Len(text)])
    THEN dropEmptyEnd(SubSeq(text, 1, Len(text) - 1))
    ELSE text

(* .trim() of the whole text; the empty string is one empty line *)
trimText(text) ==
    LET t == dropEmptyEnd(dropEmptyStart(text))
    IN IF t = <<>> THEN <<EmptyLine>> ELSE t

(* lines[i].replace(label, '').trim().length: a label is removed where it *)
(* is the one looked for, any other label is part of the field             *)
fieldLength(l, label) ==
    IF l.label = label \/ l.label = "" THEN l.n ELSE Len(l.label) + 1 + l.n

(* `${label} ${field.substring(0, budget)}` *)
truncated(label, budget) == Line(label, budget)

postProcessContent(text, tmpl) ==
    LET cleaned == trimText(collapseBreaks(removeBold(text)))
        lines == cleaned
    IN IF tmpl = "google" /\ Len(lines) >= 3
       THEN LET title1 == fieldLength(lines[1], LabelTitle1)
                title2 == fieldLength(lines[2], LabelTitle2)
                description == fieldLength(lines[3], LabelDescription)
                p1 == IF title1 > titleBudget
                      THEN <<truncated(LabelTitle1, titleBudget)>>
                           \o SubSeq(lines, 2, Len(lines))
                      ELSE cleaned
                p2 == IF title2 > titleBudget
                      THEN <<lines[1], truncated(LabelTitle2, titleBudget)>>
                           \o SubSeq(lines, 3, Len(lines))
                      ELSE p1
                p3 == IF description > descriptionBudget
                      THEN <<lines[1], lines[2],
                             truncated(LabelDescription, descriptionBudget)>>
                      ELSE p2
            IN p3
       ELSE cleaned

(* the lines a generated text is made of: empty, a title or a description *)
(* at or one past its budget, the first title also in bold, other text     *)
GeneratedLines ==
    {EmptyLine, Line("", 5)}
    \cup {Line(LabelTitle1, n) : n \in {titleBudget, titleBudget + 1}}
    \cup {[label |-> LabelTitle1, bold |-> TRUE, n |-> titleBudget + 1]}
    \cup {Line(LabelTitle2, n) : n \in {titleBudget, titleBudget + 1}}
    \cup {Line(LabelDescription, n) : n \in {descriptionBudget, descriptionBudget + 1}}

GeneratedTexts == UNION {[1..k -> GeneratedLines] : k \in 1..MaxLines}

PostTemplates == {"google", "blog"}

----------------------------------------------------------------------------
Init ==
    /\ revision \in Revisions
    /\ now = 0
    /\ rateLimitMap = [k \in Keys |-> NoEntry]
    /\ seen = [k \in Keys |-> 0]
    /\ winStart = [k \in Keys |-> -1]
    /\ last = NoRequest
    /\ rows \in InitialTables
    /\ inflight = EmptyBag
    /\ delivered = 0
    /\ upserts = [e \in Emails |-> 0]
    /\ wlast = NoStep
    /\ sub = NoLookup
    /\ req = NoBody
    /\ res = NoAnswer
    /\ pending = EmptyBag
    /\ generated_content = EmptyBag
    /\ fetches = 0
    /\ allowedAt = [k \in Keys |-> [t \in TimePoints |-> 0]]
    /\ prevStart = [k \in Keys |-> -1]
    /\ content = <<>>
    /\ template = "none"
    /\ processed = <<>>

(* The clock advances between requests *)
Tick ==
    /\ \E t \in TimePoints : t > now /\ now' = t
    /\ UNCHANGED <<postVars, burstVars, revision, rateVars, webVars, genVars>>

(* A request of client ip for a route whose chain starts with rateLimit;   *)
(* valid is the verdict of validateGenerateRequest where the chain has it  *)
GatedRequest(ip, route, valid) ==
    /\ Gated(revision, route)
    /\ valid \/ Validated(revision, route)
    /\ LET r == rateLimit(rateLimitMap, ip, now)
           opens == winStart[ip] = -1 \/ now - winStart[ip] > windowMs
           s == IF opens THEN 1 ELSE seen[ip] + 1
       IN \* bounds: a key is rejected at most MaxOver times per window, and at
          \* most one key at a time has more than MaxLight requests in its window
          /\ s <= maxRequests + MaxOver
          /\ s <= MaxLight \/ \A k \in Keys \ {ip} : seen[k] <= MaxLight
          /\ rateLimitMap' = r.map
          /\ seen' = [seen EXCEPT ![ip] = s]
          /\ winStart' = [winStart EXCEPT ![ip] = IF opens THEN now ELSE @]
          /\ last' = [key |-> ip, route |-> route,
                      gate |-> IF r.next THEN "next" ELSE "429",
                      status |-> IF ~r.next THEN "429"
                                 ELSE IF ~valid THEN "400" ELSE "handler",
                      handlerRan |-> r.next /\ valid]
    /\ UNCHANGED <<postVars, burstVars, revision, now, webVars, genVars>>

(* A request for a route with no rateLimit in its chain *)
OpenRequest(ip, route) ==
    /\ ~Gated(revision, route)
    /\ last' = [key |-> ip, route |-> route, gate |-> "none", status |-> "handler",
                handlerRan |-> TRUE]
    /\ UNCHANGED <<postVars, burstVars, revision, now, rateLimitMap, seen, winStart, webVars, genVars>>

NextRate ==
    \/ Tick
    \/ \E ip \in Keys, route \in Routes, valid \in BOOLEAN : GatedRequest(ip, route, valid)
    \/ \E ip \in Keys, route \in Routes : OpenRequest(ip, route)

(* the rate limiter does not read the table: its runs start from the empty one *)
InitRate == Init /\ rows = {}

SpecRate == InitRate /\ [][NextRate]_vars

(* A request of client ip goes through rateLimit; the history keeps, per   *)
(* instant, the requests of the key allowed within the last windowMs        *)
BurstRequest(ip) ==
    /\ Gated(revision, "GET /api/history")
    /\ LET r == rateLimit(rateLimitMap, ip, now)
           resets == has(rateLimitMap, ip) /\ r.map[ip].startTime # rateLimitMap[ip].startTime
           kept == [k \in Keys |->
                       [t \in TimePoints |-> IF now - t <= windowMs THEN allowedAt[k][t]
                                                                      ELSE 0]]
       IN \* bound: at most one key has more than MaxLight requests in its window
          /\ \/ r.map[ip].count <= MaxLight
             \/ \A k \in Keys \ {ip} : rateLimitMap[k].count <= MaxLight
          /\ rateLimitMap' = r.map
          /\ allowedAt' = [kept EXCEPT ![ip][now] = @ + IF r.next THEN 1 ELSE 0]
          /\ prevStart' = [prevStart EXCEPT ![ip] =
                              IF resets THEN rateLimitMap[ip].startTime ELSE @]
    /\ UNCHANGED <<postVars, revision, now, seen, winStart, last, webVars, genVars>>

NextBurst ==
    \/ Tick
    \/ \E ip \in Keys : BurstRequest(ip)

InitBurst == Init /\ revision = "part_000" /\ rows = {}

SpecBurst == InitBurst /\ [][NextBurst]_vars

(* POST /webhook/hotmart arrives: body parsing, the switch, and the handler *)
(* up to its store call                                                     *)
Deliver(body) ==
    /\ delivered < MaxEvents
    /\ delivered' = delivered + 1
    /\ IF ~body.parsed
       THEN /\ wlast' = [NoStep EXCEPT !.phase = "done",
                                       !.status = ParseFailure(revision).status,
                                       !.body = ParseFailure(revision).body]
            /\ UNCHANGED <<rows, inflight, upserts>>
       ELSE LET h == Dispatch(revision, body.event, body.data, now)
                step == [NoStep EXCEPT !.parsed = TRUE, !.event = body.event, !.exc = h.exc,
                                       !.log = h.log]
            IN IF h.op = NoOp
               THEN /\ wlast' = [step EXCEPT !.phase = "done",
                                             !.status = Respond(h.exc).status,
                                             !.body = Respond(h.exc).body]
                    /\ UNCHANGED <<rows, inflight, upserts>>
               ELSE /\ BagCardinality(inflight) < MaxInFlight
                    /\ inflight' = inflight (+) SetToBag({h.op})
                    /\ wlast' = [step EXCEPT !.phase = "await"]
                    /\ UNCHANGED <<rows, upserts>>
    /\ UNCHANGED <<postVars, burstVars, revision, now, sub, rateVars, genVars>>

(* the store answers a suspended handler, which logs and returns to the    *)
(* route; the route responds                                               *)
StoreReply(op, outcome) ==
    /\ BagIn(op, inflight)
    /\ LET a == AfterStore(outcome)
       IN /\ rows' = IF outcome = "ok" THEN Apply(rows, op) ELSE rows
          /\ upserts' = IF outcome = "ok" /\ op.call = "upsert"
                        THEN [upserts EXCEPT ![op.email] = @ + 1] ELSE upserts
          /\ wlast' = [NoStep EXCEPT !.phase = "done", !.parsed = TRUE,
                                     !.event = op.tag,
                                     !.exc = a.exc, !.log = a.log,
                                     !.store = outcome,
                                     !.matched = Cardinality(Matching(rows, op.email)),
                                     !.status = Respond(a.exc).status,
                                     !.body = Respond(a.exc).body]
    /\ inflight' = inflight (-) SetToBag({op})
    /\ UNCHANGED <<postVars, burstVars, revision, now, delivered, sub, rateVars, genVars>>

NextWebhook ==
    \/ Tick
    \/ \E body \in Bodies : Deliver(body)
    \/ \E op \in BagToSet(inflight), outcome \in StoreOutcomes : StoreReply(op, outcome)

SpecWebhook == Init /\ [][NextWebhook]_vars

(* GET /api/subscription/:email reaches its handler: the read of the store *)
(* and the answer                                                          *)
Lookup(email, outcome) ==
    /\ LET a == subscription(revision, select(rows, email, outcome))
       IN sub' = [email |-> email, store |-> outcome, status |-> a.status,
                  body |-> a.body, data |-> a.data]
    /\ UNCHANGED <<postVars, burstVars, revision, now, rateVars, rows, inflight, delivered, upserts, wlast,
                   genVars>>

NextLookup == \E email \in Emails, outcome \in StoreOutcomes : Lookup(email, outcome)

(* the read path alone, over a table the webhook has written *)
InitLookup ==
    /\ revision \in Revisions
    /\ now = 0
    /\ rateLimitMap = [k \in Keys |-> NoEntry]
    /\ seen = [k \in Keys |-> 0]
    /\ winStart = [k \in Keys |-> -1]
    /\ last = NoRequest
    /\ rows \in Tables
    /\ inflight = EmptyBag
    /\ delivered = 0
    /\ upserts = [e \in Emails |-> 0]
    /\ wlast = NoStep
    /\ sub = NoLookup
    /\ req = NoBody
    /\ res = NoAnswer
    /\ pending = EmptyBag
    /\ generated_content = EmptyBag
    /\ fetches = 0
    /\ allowedAt = [k \in Keys |-> [t \in TimePoints |-> 0]]
    /\ prevStart = [k \in Keys |-> -1]
    /\ content = <<>>
    /\ template = "none"
    /\ processed = <<>>

SpecLookup == InitLookup /\ [][NextLookup]_vars

(* validateGenerateRequest(req, res, next) runs once for the request req *)
Validate ==
    /\ Validated(revision, "POST /api/generate")
    /\ res.phase = "none"
    /\ LET v == validateGenerateRequest(req)
       IN res' = [NoAnswer EXCEPT !.phase = "validated", !.next = v.next,
                                  !.status = v.status, !.error = v.error]
    /\ UNCHANGED <<postVars, burstVars, revision, now, rateVars, webVars, req, pending, generated_content,
                   fetches>>

NextValidate == Validate

(* the validator alone: a request with any body has reached it *)
InitValidate ==
    /\ revision = "part_000"
    /\ now = 0
    /\ rateLimitMap = [k \in Keys |-> NoEntry]
    /\ seen = [k \in Keys |-> 0]
    /\ winStart = [k \in Keys |-> -1]
    /\ last = NoRequest
    /\ rows = {}
    /\ inflight = EmptyBag
    /\ delivered = 0
    /\ upserts = [e \in Emails |-> 0]
    /\ wlast = NoStep
    /\ sub = NoLookup
    /\ req \in GenerateBodies
    /\ res = NoAnswer
    /\ pending = EmptyBag
    /\ generated_content = EmptyBag
    /\ fetches = 0
    /\ allowedAt = [k \in Keys |-> [t \in TimePoints |-> 0]]
    /\ prevStart = [k \in Keys |-> -1]
    /\ content = <<>>
    /\ template = "none"
    /\ processed = <<>>

SpecValidate == InitValidate /\ [][NextValidate]_vars

(* POST /api/generate arrives from client ip: the middleware of the route, *)
(* then the handler up to its await of fetch                               *)
Generate(ip, body) ==
    /\ req' = body
    /\ LET c == Through(Chain(revision, "POST /api/generate"), rateLimitMap, ip, now, body)
       IN /\ rateLimitMap' = c.map
          \* bound: a window holds at most MaxAdmitted requests, or is one
          \* request short of full, or is full
          /\ \/ c.map[ip].count <= MaxAdmitted
             \/ c.map[ip].count >= maxRequests
          /\ IF c.status # 0
             THEN /\ res' = [NoAnswer EXCEPT !.phase = "answered", !.key = ip,
                                             !.status = c.status, !.error = c.error]
                  /\ UNCHANGED <<pending, fetches>>
             ELSE /\ fetches < MaxFetches
                  /\ BagCardinality(pending) < MaxPending
                  /\ fetches' = fetches + 1
                  /\ pending' = pending (+) SetToBag({[phase |-> "fetch", body |-> body,
                                                       provider |-> "none",
                                                       calls |-> 1, inserts |-> 0]})
                  /\ res' = [NoAnswer EXCEPT !.phase = "await fetch", !.key = ip,
                                             !.next = TRUE, !.calls = 1]
    /\ UNCHANGED <<postVars, burstVars, revision, now, seen, winStart, last, webVars, generated_content>>

(* the provider answers a suspended request: the handler throws to its     *)
(* catch block, which answers 500, or goes on to its await of the insert   *)
ProviderReply(call, outcome) ==
    /\ BagIn(call, pending)
    /\ call.phase = "fetch"
    /\ IF AfterFetch(revision, outcome) = "throw"
       THEN /\ pending' = pending (-) SetToBag({call})
            /\ res' = [NoAnswer EXCEPT !.phase = "answered",
                                       !.next = TRUE, !.status = 500,
                                       !.error = MsgGenerate, !.provider = outcome,
                                       !.calls = call.calls, !.inserts = call.inserts]
       ELSE /\ pending' = (pending (-) SetToBag({call}))
                          (+) SetToBag({[call EXCEPT !.phase = "insert", !.provider = outcome,
                                                        !.inserts = @ + 1]})
            /\ res' = [NoAnswer EXCEPT !.phase = "await insert",
                                       !.next = TRUE, !.provider = outcome,
                                       !.calls = call.calls, !.inserts = call.inserts + 1]
    /\ UNCHANGED <<postVars, burstVars, revision, now, rateVars, webVars, req, generated_content, fetches>>

(* the store answers the insert: the handler logs and answers 200 *)
InsertReply(call, outcome) ==
    /\ BagIn(call, pending)
    /\ call.phase = "insert"
    /\ pending' = pending (-) SetToBag({call})
    /\ generated_content' = IF outcome = "ok"
                            THEN generated_content (+) SetToBag({GenerationRecord(call)})
                            ELSE generated_content
    /\ res' = [NoAnswer EXCEPT !.phase = "answered", !.next = TRUE,
                               !.status = 200, !.provider = call.provider,
                               !.store = outcome,
                               !.calls = call.calls, !.inserts = call.inserts]
    /\ UNCHANGED <<postVars, burstVars, revision, now, rateVars, webVars, req, fetches>>

(* every suspended request there can be *)
Calls ==
    {[phase |-> ph, body |-> b, provider |-> o, calls |-> 1, inserts |-> i] :
        ph \in {"fetch", "insert"}, b \in SentBodies,
        o \in ProviderOutcomes \cup {"none"}, i \in {0, 1}}

NextGenerate ==
    \/ Tick
    \/ \E ip \in Keys, body \in SentBodies : Generate(ip, body)
    \/ \E call \in Calls, outcome \in ProviderOutcomes : ProviderReply(call, outcome)
    \/ \E call \in Calls, outcome \in StoreOutcomes : InsertReply(call, outcome)

(* the rate limiter also counts the requests for the other /api routes:   *)
(* when the first POST /api/generate arrives, the window of ip1 is new or  *)
(* holds maxRequests - 1 requests                                          *)
StartMaps(rev) ==
    {[k \in Keys |-> NoEntry]}
    \cup IF Gated(rev, "POST /api/generate")
         THEN {[k \in Keys |-> IF k = "ip1"
                               THEN [count |-> maxRequests - 1, startTime |-> 0]
                               ELSE NoEntry]}
         ELSE {}

InitGenerate ==
    /\ revision \in Revisions
    /\ now = 0
    /\ rateLimitMap \in StartMaps(revision)
    /\ seen = [k \in Keys |-> 0]
    /\ winStart = [k \in Keys |-> -1]
    /\ last = NoRequest
    /\ rows = {}
    /\ inflight = EmptyBag
    /\ delivered = 0
    /\ upserts = [e \in Emails |-> 0]
    /\ wlast = NoStep
    /\ sub = NoLookup
    /\ req = NoBody
    /\ res = NoAnswer
    /\ pending = EmptyBag
    /\ generated_content = EmptyBag
    /\ fetches = 0
    /\ allowedAt = [k \in Keys |-> [t \in TimePoints |-> 0]]
    /\ prevStart = [k \in Keys |-> -1]
    /\ content = <<>>
    /\ template = "none"
    /\ processed = <<>>

SpecGenerate == InitGenerate /\ [][NextGenerate]_vars

----------------------------------------------------------------------------
(* The generated text of one request goes through postProcessContent *)

PostProcess ==
    /\ content # <<>>
    /\ processed = <<>>
    /\ processed' = postProcessContent(content, template)
    /\ UNCHANGED <<content, template, burstVars, revision, now, rateVars, webVars, genVars>>

NextPost == PostProcess

InitPost ==
    /\ revision = "part_000"
    /\ now = 0
    /\ rateLimitMap = [k \in Keys |-> NoEntry]
    /\ seen = [k \in Keys |-> 0]
    /\ winStart = [k \in Keys |-> -1]
    /\ last = NoRequest
    /\ rows = {}
    /\ inflight = EmptyBag
    /\ delivered = 0
    /\ upserts = [e \in Emails |-> 0]
    /\ wlast = NoStep
    /\ sub = NoLookup
    /\ req = NoBody
    /\ res = NoAnswer
    /\ pending = EmptyBag
    /\ generated_content = EmptyBag
    /\ fetches = 0
    /\ allowedAt = [k \in Keys |-> [t \in TimePoints |-> 0]]
    /\ prevStart = [k \in Keys |-> -1]
    /\ content \in GeneratedTexts
    /\ template \in PostTemplates
    /\ processed = <<>>

SpecPost == InitPost /\ [][NextPost]_vars

----------------------------------------------------------------------------
(* Claims about the rate limiter, checked under SpecRate *)

\* C1: for one client key, the first 50 requests that fall within one window
\* are all allowed (rateLimit calls next), and the 51st request of that key
\* in the same window is answered 429 and the handler behind it is not run.
C1_FirstFiftyAllowedThenRejected ==
    last.gate # "none" =>
        /\ seen[last.key] <= maxRequests => last.gate = "next"
        /\ seen[last.key] = maxRequests + 1 =>
               last.gate = "429" /\ last.status = "429" /\ ~last.handlerRan

C1_Witness ==
    /\ last.gate = "429"
    /\ seen[last.key] = maxRequests + 1
    /\ now - winStart[last.key] <= windowMs

\* C2 (as stated): every inbound request, whatever its route, passes through
\* the per-client rate-limit gate before its route handler runs.
C2_EveryRouteGated ==
    last.route # "none" => last.gate # "none"

\* C2 (amended): the gate stands in front of exactly the four /api routes of
\* part_000; a request for one of them runs its handler only after rateLimit
\* called next; POST /webhook/hotmart, GET /health and unmatched routes are
\* never gated, and server.js gates no route.
C2_ApiRoutesGated ==
    last.route # "none" =>
        /\ last.gate # "none" <=>
               /\ revision = "part_000"
               /\ last.route \in {"POST /api/generate", "GET /api/history",
                                  "GET /api/subscription/:email", "GET /api/stats"}
        /\ last.gate # "none" /\ last.handlerRan => last.gate = "next"

C2_Witness ==
    /\ last.route = "GET /api/history"
    /\ last.gate = "next"
    /\ last.handlerRan

(* the step in which a request of client ip goes through rateLimit *)
Limited(ip) ==
    /\ last'.key = ip
    /\ last'.gate # "none"
    /\ seen'[ip] # seen[ip] \/ winStart'[ip] # winStart[ip]

\* C17: for a key with an entry, a request at time now resets the entry to
\* {count: 1, startTime: now} and is allowed exactly when
\* now - startTime > windowMs, the key being at its limit or not; a request
\* arriving exactly windowMs after startTime is counted in the old window:
\* allowed with the count incremented if the count is below the limit,
\* answered 429 with the entry unchanged otherwise.
C17_ResetStrictlyAfterWindow ==
    [][\A ip \in Keys :
          Limited(ip) /\ has(rateLimitMap, ip) =>
              LET old == rateLimitMap[ip]
                  reset == /\ rateLimitMap'[ip] = [count |-> 1, startTime |-> now]
                           /\ last'.gate = "next"
              IN /\ reset <=> now - old.startTime > windowMs
                 /\ now - old.startTime = windowMs =>
                       /\ rateLimitMap'[ip].startTime = old.startTime
                       /\ IF old.count < maxRequests
                          THEN /\ rateLimitMap'[ip].count = old.count + 1
                               /\ last'.gate = "next"
                          ELSE /\ rateLimitMap'[ip] = old
                               /\ last'.gate = "429"]_vars

C17_Witness ==
    /\ now = windowMs
    /\ last.gate = "429"
    /\ rateLimitMap[last.key] = [count |-> maxRequests, startTime |-> 0]
    /\ seen[last.key] = maxRequests + 1

Min(a, b) == IF a <= b THEN a ELSE b

\* C18: the read-check-increment of rateLimit is one step with respect to the
\* other requests: whatever the interleaving of the requests of the keys,
\* after N requests of a key in one window no update is lost, the count of
\* the key is min(N, maxRequests), and the N-th request is allowed exactly
\* when N <= maxRequests, so min(N, maxRequests) of them are allowed.
C18_NoLostUpdate ==
    /\ [](\A ip \in Keys :
             /\ has(rateLimitMap, ip) <=> seen[ip] > 0
             /\ has(rateLimitMap, ip) =>
                   rateLimitMap[ip].count = Min(seen[ip], maxRequests))
    /\ [][\A ip \in Keys :
             Limited(ip) => (last'.gate = "next" <=> seen'[ip] <= maxRequests)]_vars

C18_Witness ==
    /\ seen["ip1"] = maxRequests + MaxOver
    /\ rateLimitMap["ip1"].count = maxRequests
    /\ seen["ip2"] = MaxLight
    /\ rateLimitMap["ip2"].count = MaxLight
    /\ last.gate = "429"

\* C23: every entry of rateLimitMap has 1 <= count <= maxRequests, and its
\* startTime is the time of an allowed request of its key, the one that opened
\* the key's current window: startTime changes only in a step in which a
\* request of the key is allowed, and becomes the time of that request; an
\* entry is never removed, so the set of keys only grows.
C23_EntriesWellFormed ==
    /\ [](\A ip \in Keys :
            has(rateLimitMap, ip) =>
                /\ 1 <= rateLimitMap[ip].count
                /\ rateLimitMap[ip].count <= maxRequests
                /\ rateLimitMap[ip].startTime = winStart[ip]
                /\ rateLimitMap[ip].startTime \in TimePoints
                /\ rateLimitMap[ip].startTime <= now)
    /\ [][\A ip \in Keys :
             /\ has(rateLimitMap, ip) => has(rateLimitMap', ip)
             /\ rateLimitMap'[ip].startTime # rateLimitMap[ip].startTime =>
                   /\ last'.key = ip
                   /\ last'.gate = "next"
                   /\ rateLimitMap'[ip] = [count |-> 1, startTime |-> now]]_vars

C23_Witness ==
    /\ now = windowMs + 1
    /\ rateLimitMap["ip1"] = [count |-> maxRequests, startTime |-> windowMs + 1]
    /\ seen["ip1"] = maxRequests + 1
    /\ rateLimitMap["ip2"] = [count |-> MaxLight, startTime |-> 0]
    /\ last.key = "ip1"
    /\ last.gate = "429"

\* C24: a request answered 429 leaves rateLimitMap as it is, count and
\* startTime of its key included, so rejected requests neither extend nor
\* restart the window; a key at its limit is rejected as long as no more than
\* windowMs has passed since the startTime of the window in which it reached
\* the limit, and is allowed, in a new window, by its first request after that.
C24_RejectionLeavesEntry ==
    [][\A ip \in Keys :
          Limited(ip) =>
              /\ last'.gate = "429" =>
                    /\ rateLimitMap' = rateLimitMap
                    /\ winStart' = winStart
                    /\ rateLimitMap[ip].count = maxRequests
              /\ seen[ip] >= maxRequests =>
                    IF now - winStart[ip] > windowMs
                    THEN /\ last'.gate = "next"
                         /\ rateLimitMap'[ip] = [count |-> 1, startTime |-> now]
                    ELSE /\ last'.gate = "429"
                         /\ rateLimitMap'[ip].startTime = winStart[ip]]_vars

(* the key was rejected at two instants of its window, the last one windowMs *)
(* after the window opened                                                  *)
C24_Witness ==
    /\ now = windowMs
    /\ last.key = "ip1"
    /\ last.gate = "429"
    /\ seen["ip1"] = maxRequests + MaxOver
    /\ winStart["ip1"] = 0
    /\ rateLimitMap["ip1"] = [count |-> maxRequests, startTime |-> 0]

(* the routes registered behind rateLimit *)
ApiRoutes == {"POST /api/generate", "GET /api/history", "GET /api/subscription/:email",
              "GET /api/stats"}

\* C25: with the rate limiter of part_000, a request for POST /api/generate,
\* GET /api/history, GET /api/stats or GET /api/subscription/:email is counted
\* in the one entry of its client whatever the route, and before the body is
\* validated: a client at its limit inside its window is answered 429 and
\* never 400, whatever the body; any other request uses one unit of the
\* client's window (the entry is created, reset or its count incremented),
\* also when the answer is 400; only POST /api/generate answers 400.
C25_QuotaSharedAndCountedFirst ==
    [][\A ip \in Keys :
          /\ revision = "part_000"
          /\ last'.key = ip
          /\ last'.route \in ApiRoutes
          /\ last' # last \/ rateLimitMap' # rateLimitMap
          => LET old == rateLimitMap[ip]
                 inWindow == has(rateLimitMap, ip) /\ now - old.startTime <= windowMs
             IN /\ IF inWindow /\ old.count >= maxRequests
                   THEN /\ last'.status = "429"
                        /\ rateLimitMap' = rateLimitMap
                   ELSE /\ last'.status \in {"400", "handler"}
                        /\ rateLimitMap'[ip].count = IF inWindow THEN old.count + 1 ELSE 1
                        /\ rateLimitMap'[ip].startTime =
                               IF inWindow THEN old.startTime ELSE now
                /\ \A k \in Keys \ {ip} : rateLimitMap'[k] = rateLimitMap[k]
                /\ last'.status = "400" => last'.route = "POST /api/generate"]_vars

(* the last unit of the window went to a request answered 400 *)
C25_Witness ==
    /\ last.route = "POST /api/generate"
    /\ last.status = "400"
    /\ last.gate = "next"
    /\ ~last.handlerRan
    /\ seen[last.key] = maxRequests
    /\ rateLimitMap[last.key].count = maxRequests

----------------------------------------------------------------------------
(* Claims about bursts at the window boundary, checked under SpecBurst *)

RECURSIVE Sum(_, _)
Sum(f, S) == IF S = {} THEN 0 ELSE LET x == CHOOSE y \in S : TRUE IN f[x] + Sum(f, S \ {x})

(* the requests of ip allowed in the interval [now - windowMs, now] *)
Burst(ip) == Sum(allowedAt[ip], {t \in TimePoints : t <= now /\ now - t <= windowMs})

\* C19 (as stated): the requests of a key allowed in an interval of length
\* windowMs are at most 2 x maxRequests, and 2 x maxRequests is reached by
\* maxRequests requests at the end of one window followed by maxRequests
\* requests right after the reset: when a window is filled at its last instant
\* and the next one is opened and filled at the first instant past it, the
\* 2 x maxRequests requests allowed lie in one interval of length windowMs.
C19_BurstReachesTwiceMax ==
    \A ip \in Keys :
        /\ Burst(ip) <= 2 * maxRequests
        /\ /\ prevStart[ip] # -1
           /\ prevStart[ip] + windowMs \in TimePoints
           /\ allowedAt[ip][prevStart[ip] + windowMs] = maxRequests - 1
           /\ now = prevStart[ip] + windowMs + 1
           /\ rateLimitMap[ip] = [count |-> maxRequests, startTime |-> now]
           => Burst(ip) = 2 * maxRequests

\* C19 (amended): the requests of a key allowed in an interval of length
\* windowMs are at most 2 x maxRequests - 1: the request that opens a window
\* is more than windowMs before the request that opens the next one, so at
\* most maxRequests - 1 requests of the old window fall in an interval with
\* requests of the new one.
C19_BurstBelowTwiceMax ==
    \A ip \in Keys : Burst(ip) <= 2 * maxRequests - 1

C19_Witness ==
    /\ Burst("ip1") = 2 * maxRequests - 1
    /\ now = windowMs + 1
    /\ prevStart["ip1"] = 0
    /\ rateLimitMap["ip1"] = [count |-> maxRequests, startTime |-> windowMs + 1]

----------------------------------------------------------------------------
(* Claims about the webhook, checked under SpecWebhook *)

(* the step in which the store applies the call op of a suspended handler *)
Applied(op) ==
    /\ wlast'.phase = "done"
    /\ wlast'.store = "ok"
    /\ BagIn(op, inflight)
    /\ inflight' = inflight (-) SetToBag({op})

\* C3: every POST /webhook/hotmart request is answered with HTTP 200, for
\* every request body (well-formed, missing event or data, unparseable) and
\* every outcome of handling; no path answers with another status.
C3_WebhookAlways200 ==
    wlast.phase = "done" => wlast.status = 200

\* C4: after any sequence and interleaving of webhook events the table holds
\* at most one row per user_email, exactly one for every email for which an
\* approval upsert has succeeded, and no row is ever deleted.
C4_OneRowPerEmail ==
    /\ [](\A e \in Emails :
            /\ Cardinality(Matching(rows, e)) <= 1
            /\ upserts[e] > 0 => Cardinality(Matching(rows, e)) = 1)
    /\ [][\A e \in Emails : Matching(rows, e) # {} => Matching(rows', e) # {}]_vars

C4_Witness ==
    \E e \in Emails :
        /\ upserts[e] >= 2
        /\ Cardinality(Matching(rows, e)) = 1
        /\ wlast.event = "PURCHASE_APPROVED"
        /\ wlast.store = "ok"

\* C5: PURCHASE_APPROVED is an idempotent upsert: whenever the upsert of an
\* approval for an email is applied, whatever was applied before it (a
\* duplicate, another purchase, in either order), the table then holds exactly
\* one row for the email, with status active and the product id, product name
\* and purchase token of this last event.
C5_UpsertLastWins ==
    [][\A op \in BagToSet(inflight) :
          Applied(op) /\ op.tag = "PURCHASE_APPROVED" =>
              /\ Cardinality(Matching(rows', op.email)) = 1
              /\ \A r \in Matching(rows', op.email) :
                    /\ r.status = "active"
                    /\ r.product_id = op.purchase.id
                    /\ r.product_name = op.purchase.name
                    /\ r.purchase_token = op.purchase.transaction]_vars

C5_Witness ==
    /\ wlast.phase = "done"
    /\ wlast.event = "PURCHASE_APPROVED"
    /\ wlast.store = "ok"
    /\ wlast.matched = 1
    /\ upserts["a@x.com"] = 2
    /\ \E r \in Matching(rows, "a@x.com") : r.product_id = "p2" /\ r.status = "active"

\* C6: for an email with a row, an applied PURCHASE_CANCELED / REFUNDED /
\* CHARGEBACK sets the row's status to canceled / refunded / chargeback and
\* canceled_at / refunded_at / chargeback_at to the time the handler read the
\* clock; product_id, product_name, purchase_token, starts_at and ends_at keep
\* their values, and the rows of other emails are untouched.
C6_StatusUpdateEffect ==
    [][\A op \in BagToSet(inflight) :
          Applied(op) /\ op.tag \in {"PURCHASE_CANCELED", "PURCHASE_REFUNDED",
                                     "PURCHASE_CHARGEBACK"} =>
              /\ Cardinality(rows') = Cardinality(rows)
              /\ \A r \in rows :
                    IF r.user_email # op.email
                    THEN r \in rows'
                    ELSE \E q \in rows' :
                            /\ q.user_email = r.user_email
                            /\ op.tag = "PURCHASE_CANCELED" =>
                                   q.status = "canceled" /\ q.canceled_at = op.ts
                            /\ op.tag = "PURCHASE_REFUNDED" =>
                                   q.status = "refunded" /\ q.refunded_at = op.ts
                            /\ op.tag = "PURCHASE_CHARGEBACK" =>
                                   q.status = "chargeback" /\ q.chargeback_at = op.ts
                            /\ q.product_id = r.product_id
                            /\ q.product_name = r.product_name
                            /\ q.purchase_token = r.purchase_token
                            /\ q.starts_at = r.starts_at
                            /\ q.ends_at = r.ends_at]_vars

C6_Witness ==
    /\ wlast.phase = "done"
    /\ wlast.event = "PURCHASE_REFUNDED"
    /\ wlast.store = "ok"
    /\ wlast.matched = 1
    /\ \E r \in Matching(rows, "a@x.com") : r.status = "refunded" /\ r.refunded_at = windowMs
    /\ SeedRow \in rows

\* C7 (as stated): the only status transitions are active -> canceled,
\* active -> refunded and active -> chargeback; a row whose status is
\* canceled, refunded or chargeback never leaves that status.
C7_MonotonicStatus ==
    [][\A r \in rows : \A q \in Matching(rows', r.user_email) :
          \/ q.status = r.status
          \/ r.status = "active" /\ q.status \in {"canceled", "refunded", "chargeback"}]_vars

\* C7 (amended): the last applied write wins.  An applied PURCHASE_CANCELED /
\* REFUNDED / CHARGEBACK moves the row from any status to canceled / refunded
\* / chargeback, an applied PURCHASE_APPROVED moves it from any status to
\* active, and a row's status changes in no other step.
C7_LastWriteWins ==
    [][/\ \A op \in BagToSet(inflight) :
             Applied(op) => \A q \in Matching(rows', op.email) :
                 q.status = CASE op.tag = "PURCHASE_APPROVED" -> "active"
                              [] op.tag = "PURCHASE_CANCELED" -> "canceled"
                              [] op.tag = "PURCHASE_REFUNDED" -> "refunded"
                              [] op.tag = "PURCHASE_CHARGEBACK" -> "chargeback"
       /\ \A r \in rows : \A q \in Matching(rows', r.user_email) :
             q.status # r.status =>
                 \E op \in BagToSet(inflight) : Applied(op) /\ op.email = r.user_email]_vars

C7_Witness ==
    \E r \in rows :
        /\ r.status = "active"
        /\ r.canceled_at # NullTs
        /\ wlast.event = "PURCHASE_APPROVED"
        /\ wlast.store = "ok"

\* C8: a PURCHASE_CANCELED for an email without a row creates no row and
\* leaves the table unchanged, is reported by the handler as a "not found"
\* outcome rather than as a successful cancellation, and is answered 200.
C8_CancelWithoutRowNotFound ==
    [][\A op \in BagToSet(inflight) :
          Applied(op) /\ op.tag = "PURCHASE_CANCELED" /\ Matching(rows, op.email) = {} =>
              /\ rows' = rows
              /\ wlast'.status = 200
              /\ wlast'.log = "not_found"]_vars

\* C9: a webhook event whose tag is PURCHASE_COMPLETE, or none of the five
\* tags of the switch (a missing tag included), changes no row, issues no
\* store call, and is answered 200 {status:'success'}.
C9_NoStoreTagIgnored ==
    [][/\ delivered' = delivered + 1
       /\ wlast'.parsed
       /\ wlast'.event \notin {"PURCHASE_APPROVED", "PURCHASE_CANCELED",
                               "PURCHASE_REFUNDED", "PURCHASE_CHARGEBACK"}
       => /\ rows' = rows
          /\ inflight' = inflight
          /\ wlast'.phase = "done"
          /\ wlast'.status = 200
          /\ wlast'.body = "success"]_vars

\* C10 (as stated): any exception raised while handling a webhook event is
\* answered with the body {status:'error', message} at HTTP 200, and the body
\* {status:'success'} is returned only when handling raised no exception.
C10_EveryExceptionAnsweredError ==
    wlast.phase = "done" /\ wlast.parsed =>
        /\ wlast.exc # "none" => wlast.status = 200 /\ wlast.body = "error"
        /\ wlast.body = "success" => wlast.exc = "none"

\* C10 (amended): an exception that reaches the catch block of the route (one
\* thrown outside the handlers' own try blocks) is answered {status:'error'}
\* at HTTP 200; in every other case, an exception caught inside a handler
\* included, the answer is {status:'success'} at HTTP 200.
C10_PropagatedExceptionAnsweredError ==
    wlast.phase = "done" /\ wlast.parsed =>
        /\ wlast.status = 200
        /\ wlast.exc = "propagated" => wlast.body = "error"
        /\ wlast.exc \in {"none", "caught"} => wlast.body = "success"

C10_Witness ==
    /\ wlast.phase = "done"
    /\ wlast.event = "PURCHASE_APPROVED"
    /\ wlast.exc = "propagated"
    /\ wlast.body = "error"
    /\ wlast.status = 200

\* C11: each lifecycle handler is fault-isolated: when its store call fails
\* (an error returned, or an exception thrown) the failure is logged inside
\* the handler and does not reach the catch block of the route, the table is
\* exactly as it was, the call is not issued again (no retry), and the request
\* is acknowledged with 200 {status:'success'}.
C11_HandlersFaultIsolated ==
    [][\A op \in BagToSet(inflight) :
          /\ wlast'.phase = "done"
          /\ wlast'.store \in {"error", "throw"}
          /\ inflight' = inflight (-) SetToBag({op})
          => /\ rows' = rows
             /\ wlast'.exc # "propagated"
             /\ wlast'.log = "error"
             /\ wlast'.status = 200
             /\ wlast'.body = "success"
             /\ BagCardinality(inflight') = BagCardinality(inflight) - 1
             /\ delivered' = delivered]_vars

C11_Witness ==
    /\ wlast.phase = "done"
    /\ wlast.event = "PURCHASE_CANCELED"
    /\ wlast.store = "throw"
    /\ wlast.exc = "caught"
    /\ wlast.status = 200
    /\ wlast.matched = 1
    /\ rows = {SeedRow}

\* C20: reactivation by upsert: when the row of an email has status
\* canceled, refunded or chargeback and the upsert of a PURCHASE_APPROVED for
\* that email is applied, the row's status is active again, starts_at is the
\* time the handler of that event read the clock and ends_at is thirty days
\* after it.
C20_ReactivationByUpsert ==
    [][\A op \in BagToSet(inflight) :
          /\ Applied(op)
          /\ op.tag = "PURCHASE_APPROVED"
          /\ \E r \in Matching(rows, op.email) :
                r.status \in {"canceled", "refunded", "chargeback"}
          => /\ Cardinality(Matching(rows', op.email)) = 1
             /\ \A q \in Matching(rows', op.email) :
                   /\ q.status = "active"
                   /\ q.starts_at = op.ts
                   /\ q.ends_at = PlusDays(op.ts, thirtyDays)]_vars

C20_Witness ==
    /\ wlast.phase = "done"
    /\ wlast.event = "PURCHASE_APPROVED"
    /\ wlast.store = "ok"
    /\ \E r \in rows :
          /\ r.status = "active"
          /\ r.refunded_at # NullTs
          /\ r.starts_at > r.refunded_at
          /\ r.ends_at = PlusDays(r.starts_at, thirtyDays)

(* the timestamp column that goes with a status *)
ColumnOf(status) ==
    CASE status = "canceled" -> "canceled_at"
      [] status = "refunded" -> "refunded_at"
      [] status = "chargeback" -> "chargeback_at"
      [] OTHER -> "none"

\* C21: each transition writes only the timestamp column matching the new
\* status, and in every row of the table, of canceled_at, refunded_at and
\* chargeback_at only the one matching the row's status is populated (none of
\* them when the status is active).
C21_OnlyMatchingTimestamp ==
    /\ [](\A r \in rows :
            /\ r.canceled_at # NullTs => r.status = "canceled"
            /\ r.refunded_at # NullTs => r.status = "refunded"
            /\ r.chargeback_at # NullTs => r.status = "chargeback")
    /\ [][\A op \in BagToSet(inflight) :
             Applied(op) =>
                 \A r \in Matching(rows, op.email) : \A q \in Matching(rows', op.email) :
                     /\ ColumnOf(q.status) # "canceled_at" => q.canceled_at = r.canceled_at
                     /\ ColumnOf(q.status) # "refunded_at" => q.refunded_at = r.refunded_at
                     /\ ColumnOf(q.status) # "chargeback_at" =>
                            q.chargeback_at = r.chargeback_at]_vars

\* C21 (amended): each applied write changes only the timestamp column
\* matching the status it writes (an approval's upsert changes none of them)
\* and leaves the other two as they were; a row whose status is canceled,
\* refunded or chargeback has the matching column populated, and the other
\* columns keep the instants of the statuses the row had before.
C21_WritesOnlyMatchingTimestamp ==
    /\ [](\A r \in rows :
            /\ ColumnOf(r.status) = "canceled_at" => r.canceled_at # NullTs
            /\ ColumnOf(r.status) = "refunded_at" => r.refunded_at # NullTs
            /\ ColumnOf(r.status) = "chargeback_at" => r.chargeback_at # NullTs)
    /\ [][\A op \in BagToSet(inflight) :
             Applied(op) =>
                 \A r \in Matching(rows, op.email) : \A q \in Matching(rows', op.email) :
                     /\ ColumnOf(q.status) # "canceled_at" => q.canceled_at = r.canceled_at
                     /\ ColumnOf(q.status) # "refunded_at" => q.refunded_at = r.refunded_at
                     /\ ColumnOf(q.status) # "chargeback_at" =>
                            q.chargeback_at = r.chargeback_at]_vars

C21_Witness ==
    \E r \in rows :
        /\ r.status = "refunded"
        /\ r.refunded_at # NullTs
        /\ r.canceled_at # NullTs
        /\ r.chargeback_at = NullTs
        /\ wlast.event = "PURCHASE_REFUNDED"
        /\ wlast.store = "ok"

\* C26 (as stated): whatever the order in which the events were emitted, the
\* status of the row of an email is the one written by the store write applied
\* last; and when a PURCHASE_CANCELED / REFUNDED / CHARGEBACK was applied
\* before the PURCHASE_APPROVED, the cancel has no effect: the row the approval
\* leaves is active and carries nothing of the cancel.
C26_CancelBeforeApprovalNoEffect ==
    [][\A op \in BagToSet(inflight) :
          Applied(op) =>
              /\ \A q \in Matching(rows', op.email) : q.status = op.status
              /\ op.call = "upsert" =>
                    \A r \in Matching(rows, op.email) : \A q \in Matching(rows', op.email) :
                        r.status # "active" =>
                            /\ q.status = "active"
                            /\ q.canceled_at = NullTs
                            /\ q.refunded_at = NullTs
                            /\ q.chargeback_at = NullTs]_vars

\* C26 (amended): the status of the row of an email is the one written by the
\* store write applied last.  A PURCHASE_CANCELED / REFUNDED / CHARGEBACK
\* applied while the email has no row changes nothing, and the approval applied
\* after it inserts an active row; applied to an existing row it sets the
\* status and its timestamp column, and the approval applied after it makes the
\* row active again but keeps that timestamp.
C26_LastAppliedWriteWins ==
    [][\A op \in BagToSet(inflight) :
          Applied(op) =>
              /\ \A q \in Matching(rows', op.email) : q.status = op.status
              /\ op.call = "update" /\ Matching(rows, op.email) = {} => rows' = rows
              /\ op.call = "update" =>
                    \A q \in Matching(rows', op.email) :
                        /\ op.column = "canceled_at" => q.canceled_at = op.ts
                        /\ op.column = "refunded_at" => q.refunded_at = op.ts
                        /\ op.column = "chargeback_at" => q.chargeback_at = op.ts
              /\ op.call = "upsert" =>
                    /\ Cardinality(Matching(rows', op.email)) = 1
                    /\ \A r \in Matching(rows, op.email) : \A q \in Matching(rows', op.email) :
                          /\ q.status = "active"
                          /\ q.canceled_at = r.canceled_at
                          /\ q.refunded_at = r.refunded_at
                          /\ q.chargeback_at = r.chargeback_at]_vars

(* the cancel and the approval of purchase t2 were delivered at the same  *)
(* instant and the cancel was applied first                                *)
C26_Witness ==
    /\ wlast.event = "PURCHASE_APPROVED"
    /\ wlast.store = "ok"
    /\ wlast.matched = 1
    /\ \E r \in Matching(rows, "b@x.com") :
          /\ r.status = "active"
          /\ r.purchase_token = "t2"
          /\ r.canceled_at = r.created_at
          /\ r.refunded_at = NullTs

----------------------------------------------------------------------------
(* Claims about GET /api/subscription/:email, checked under SpecLookup *)

\* C15: GET /api/subscription/:email answers 200 with the record of the email
\* when the table holds one (status 'active' after an approval that nothing
\* followed), 404 with status 'not_found' when it holds none, and 500 when the
\* read of the store fails; a failure of the store is never answered 404.
C15_LookupReflectsStore ==
    [][sub'.email # "none" =>
          /\ sub'.store = "ok" /\ Matching(rows, sub'.email) # {} =>
                /\ sub'.status = 200
                /\ sub'.data \in Matching(rows, sub'.email)
                /\ \A r \in Matching(rows, sub'.email) :
                      r.status = "active" => sub'.data.status = "active"
          /\ sub'.store = "ok" /\ Matching(rows, sub'.email) = {} =>
                sub'.status = 404 /\ sub'.body = "not_found"
          /\ sub'.store \in {"error", "throw"} => sub'.status = 500]_vars

----------------------------------------------------------------------------
(* Claims about validateGenerateRequest, checked under SpecValidate *)

(* a string made of white space only, the empty string included *)
OnlyWhiteSpace(v) == \A i \in 1..Len(v.runs) : v.runs[i].ch = " "

IsValidTemplate(v) ==
    v.kind = "string" /\ v.text \in {"instagram", "facebook", "ecommerce", "email",
                                     "google", "blog"}

\* C13: validateGenerateRequest answers 400 for an empty prompt, a prompt of
\* more than 1000 characters (1001 included), a prompt of white space only, a
\* missing or non-string prompt, and any template outside the six valid ones;
\* it calls next for every non-blank string prompt of 1 to 1000 characters
\* combined with each of the six templates.
C13_ValidatorRejectsAndAccepts ==
    res.phase = "validated" =>
        /\ \/ req.prompt.kind # "string"
           \/ length(req.prompt) = 0
           \/ length(req.prompt) >= maxPromptLength + 1
           \/ OnlyWhiteSpace(req.prompt)
           \/ ~IsValidTemplate(req.template)
           => res.status = 400 /\ ~res.next
        /\ /\ req.prompt.kind = "string"
           /\ length(req.prompt) \in 1..maxPromptLength
           /\ ~OnlyWhiteSpace(req.prompt)
           /\ IsValidTemplate(req.template)
           => res.next /\ res.status = 0

C13_Witness ==
    /\ res.phase = "validated"
    /\ res.next
    /\ length(req.prompt) = maxPromptLength
    /\ req.prompt.runs[1].ch = " "
    /\ req.template = Text("blog")

\* C14: validateGenerateRequest applies its checks in the order (1) prompt
\* present and a string, (2) length <= 1000, (3) non-blank after trimming,
\* (4) template among the six, answers with the message of the first check
\* that fails, the four messages being distinct; in particular the prompt ''
\* with a valid template is answered 400 with the empty-prompt message.
C14_ChecksInOrder ==
    res.phase = "validated" =>
        /\ res.error =
              IF req.prompt.kind # "string" THEN MsgRequired
              ELSE IF length(req.prompt) > maxPromptLength THEN MsgTooLong
              ELSE IF OnlyWhiteSpace(req.prompt) THEN MsgEmpty
              ELSE IF ~IsValidTemplate(req.template) THEN MsgTemplate
              ELSE "none"
        /\ Cardinality({MsgRequired, MsgTooLong, MsgEmpty, MsgTemplate}) = 4
        /\ req.prompt = String(<<>>) /\ IsValidTemplate(req.template) =>
               res.status = 400 /\ res.error = MsgEmpty

----------------------------------------------------------------------------
(* Claims about POST /api/generate, checked under SpecGenerate *)

\* C12 (as stated): a POST /api/generate request answered 400 or 429 has
\* caused no call to the generation provider, no store write, and no change
\* to shared state, the rate limiter's map included.
C12_RejectedWithoutSideEffect ==
    [][now' = now /\ res'.phase = "answered" /\ res'.status \in {400, 429} =>
          /\ fetches' = fetches
          /\ pending' = pending
          /\ generated_content' = generated_content
          /\ rateLimitMap' = rateLimitMap]_vars

\* C12 (amended): a request answered 400 or 429 is answered before the
\* handler runs: no call to the provider, no suspended request, no store
\* write.  A 429 leaves the rate limiter's map as it was; a 400 comes after
\* rateLimit has counted the request: the entry of the client is the one
\* rateLimit writes (created, reset or incremented), the others are untouched.
C12_RejectedBeforeHandler ==
    [][now' = now /\ res'.phase = "answered" /\ res'.status \in {400, 429} =>
          /\ fetches' = fetches
          /\ pending' = pending
          /\ generated_content' = generated_content
          /\ res'.status = 429 => rateLimitMap' = rateLimitMap
          /\ res'.status = 400 =>
                /\ rateLimitMap' = rateLimit(rateLimitMap, res'.key, now).map
                /\ rateLimitMap'[res'.key] # rateLimitMap[res'.key]]_vars

C12_Witness ==
    /\ res.phase = "answered"
    /\ res.status = 400
    /\ res.error = MsgRequired
    /\ rateLimitMap[res.key].count = maxRequests
    /\ fetches = 0
    /\ generated_content = EmptyBag

\* C16: POST /api/generate persists on a best-effort basis: when the call to
\* the provider succeeds the answer is 200 whether or not the insert succeeds,
\* and the request has issued one insert at most; when the call fails (a
\* non-success status, a malformed payload or one without content, a rejected
\* fetch) the answer is 500, the provider was called once, and the request has
\* issued no insert.
C16_BestEffortPersistence ==
    res.phase = "answered" /\ res.provider # "none" =>
        /\ res.calls = 1
        /\ res.inserts <= 1
        /\ res.provider = "ok" =>
               res.status = 200 /\ res.store \in StoreOutcomes
        /\ res.provider \in {"notOk", "malformed", "noContent", "reject"} =>
               res.status = 500 /\ res.inserts = 0 /\ res.store = "none"

----------------------------------------------------------------------------
(* Claims about postProcessContent, checked under SpecPost *)

(* the text as it is before the google branch looks at it *)
Cleaned == trimText(collapseBreaks(removeBold(content)))

(* at least three lines, laid out as title 1 / title 2 / description *)
InLayout(text) ==
    /\ Len(text) >= 3
    /\ text[1].label = LabelTitle1
    /\ text[2].label = LabelTitle2
    /\ text[3].label = LabelDescription

\* C22: for template 'google', when the cleaned text has at least three lines
\* laid out as 'Título 1: ...' / 'Título 2: ...' / 'Descrição: ...', the
\* returned text has a title 1 of at most 30 characters, a title 2 of at most
\* 30 characters and a description of at most 90 characters, whichever of the
\* three fields exceed their budget, and the lines after the third are kept.
C22_GoogleFieldsWithinBudget ==
    processed # <<>> /\ template = "google" /\ InLayout(Cleaned) =>
        /\ InLayout(processed)
        /\ fieldLength(processed[1], LabelTitle1) <= titleBudget
        /\ fieldLength(processed[2], LabelTitle2) <= titleBudget
        /\ fieldLength(processed[3], LabelDescription) <= descriptionBudget
        /\ Len(processed) = Len(Cleaned)
        /\ \A i \in 4..Len(Cleaned) : processed[i] = Cleaned[i]

====
